---- MODULE Spec2Model ----
\* A model of src/watcher/mod.rs: the Checker / Alert / Watcher triad, the
\* MultiWatcher run cycle, and the WatcherEnum / WatcherConfiguration pair.
EXTENDS Integers, Sequences, FiniteSets, TLC

\* ---------------------------------------------------------------- bounds
\* Longest alert list of a configuration.
MaxAlerts == 2
\* Check results are usage levels 0..MaxLevel; thresholds are 1..MaxLevel.
MaxLevel == 2
\* Checker configurations carry a period in 1..MaxPeriod.
MaxPeriod == 2

\* ---------------------------------------------------------------- values
\* Option<T>: None is the empty sequence, Some(x) is <<x>>.
None == <<>>
Some(x) == <<x>>
IsSome(o) == Len(o) > 0
Unwrap(o) == o[1]

\* The two variants of WatcherEnum and of WatcherConfiguration.
Kinds == {"DiskSpace", "Memory"}
\* The places of the driver's watcher list.
Slots == {"w1", "w2"}

Levels == 0..MaxLevel
Thresholds == 1..MaxLevel
Periods == 1..MaxPeriod
\* The failures a checker's check() can return.
CheckErrors == {"denied", "unavailable"}
\* The failure an AlertReporter's report() can return.
ReportErrors == {"undeliverable"}

\* Result<T>: Ok(v) or Err(e).
Ok(v) == [ok |-> TRUE, value |-> <<v>>, error |-> <<>>]
Err(e) == [ok |-> FALSE, value |-> <<>>, error |-> <<e>>]
\* Ok(()) of Result<()>.
OkUnit == [ok |-> TRUE, value |-> <<>>, error |-> <<>>]

\* struct ActiveAlert { message }
ActiveAlert(m) == [message |-> m]

\* An alert of one kind: a threshold over the check result of that kind.
AlertsOf(k) == [kind : {k}, threshold : Thresholds]
\* Vec<A>: the alert lists of kind k of length n (RECURSIVE over n).
RECURSIVE AlertLists(_, _)
AlertLists(k, n) ==
    IF n = 0 THEN {<<>>}
    ELSE AlertLists(k, n - 1)
         \cup {Append(s, a) : s \in {t \in AlertLists(k, n - 1) : Len(t) = n - 1},
                               a \in AlertsOf(k)}

\* struct SerializedMultiWatcher<A> { configuration, alerts }
SerializedMultiWatcher(k) ==
    [configuration : [period : Periods], alerts : AlertLists(k, MaxAlerts)]

\* enum WatcherConfiguration { DiskSpace(..), Memory(..) }
WatcherConfiguration ==
    UNION {[kind : {k}, serialized : SerializedMultiWatcher(k)] : k \in Kinds}

\* ------------------------------------------------- Checker and Alert traits
\* Checker::new: builds the checker of kind k from its configuration.
CheckerNew(k, configuration) == [kind |-> k, configuration |-> configuration]

\* Checker::period: the period of the checker's configuration.
CheckerPeriod(checker) == checker.configuration.period

\* Checker::check: the observation is made outside this module; any level or
\* any failure can come back.
CheckOutcomes == {Ok(v) : v \in Levels} \cup {Err(e) : e \in CheckErrors}

\* Alert::is_triggered: Some(ActiveAlert) when the level reaches the alert's
\* threshold, with a message built from the alert and the observed level.
is_triggered(a, check_result) ==
    IF check_result >= a.threshold
    THEN Some(ActiveAlert(<<a.kind, a.threshold, check_result>>))
    ELSE None

\* ------------------------------------------------------------ MultiWatcher
\* A constructor that stores the alerts last to first.
MultiWatcherNewReversed(k, serialized) ==
    [checker |-> CheckerNew(k, serialized.configuration),
     alerts |-> [i \in 1..Len(serialized.alerts) |->
                   serialized.alerts[Len(serialized.alerts) + 1 - i]]]

\* MultiWatcher::new
MultiWatcherNew(k, serialized) ==
    [checker |-> CheckerNew(k, serialized.configuration),
     alerts |-> serialized.alerts]

\* MultiWatcher::period
MultiWatcherPeriod(mw) == CheckerPeriod(mw.checker)

\* Into<WatcherEnum> for WatcherConfiguration
Into(c) ==
    CASE c.kind = "DiskSpace" ->
           [kind |-> "DiskSpace", watcher |-> MultiWatcherNew("DiskSpace", c.serialized)]
      [] c.kind = "Memory" ->
           [kind |-> "Memory", watcher |-> MultiWatcherNew("Memory", c.serialized)]

\* The Checker::new calls MultiWatcher::new makes: one, with the configuration.
MultiWatcherNewCalls(k, serialized) ==
    <<[kind |-> k, configuration |-> serialized.configuration]>>

\* The Checker::new calls the conversion makes: those of the one
\* MultiWatcher::new of the matching arm.
IntoNewCalls(c) ==
    CASE c.kind = "DiskSpace" -> MultiWatcherNewCalls("DiskSpace", c.serialized)
      [] c.kind = "Memory" -> MultiWatcherNewCalls("Memory", c.serialized)

\* WatcherEnum::period with a Memory arm that answers a fixed period instead of
\* asking its MultiWatcher.
WatcherEnumPeriodFixed(we) ==
    CASE we.kind = "DiskSpace" -> MultiWatcherPeriod(we.watcher)
      [] we.kind = "Memory" -> 1

\* WatcherEnum::period
WatcherEnumPeriod(we) ==
    CASE we.kind = "DiskSpace" -> MultiWatcherPeriod(we.watcher)
      [] we.kind = "Memory" -> MultiWatcherPeriod(we.watcher)

\* A dispatch whose Memory arm runs the checker but none of the alerts.
DispatchRunNoAlerts(we) ==
    CASE we.kind = "DiskSpace" -> we.watcher
      [] we.kind = "Memory" -> [we.watcher EXCEPT !.alerts = <<>>]

\* Watcher for WatcherEnum: the MultiWatcher whose run the match arm calls.
DispatchRun(we) ==
    CASE we.kind = "DiskSpace" -> we.watcher
      [] we.kind = "Memory" -> we.watcher

\* std::mem::discriminant of a WatcherConfiguration.
Discriminant(c) == IF c.kind = "DiskSpace" THEN 0 ELSE 1

\* The equality #[derive(PartialEq)] would give: variant and contents.
ConfigEqDerived(a, b) == a = b

\* PartialEq for WatcherConfiguration
ConfigEq(a, b) == Discriminant(a) = Discriminant(b)

\* Hash for WatcherConfiguration: the values written to the hasher.
ConfigHash(c) == <<Discriminant(c)>>

\* ------------------------------------------------------------------ state
VARIABLES
    configs,      \* slot -> Option<WatcherConfiguration>, the driver's input
    watchers,     \* slot -> Option<WatcherEnum>, built by Into
    cmp,          \* Option of the last comparison of two configurations
    period_out,   \* slot -> Option of the last period read from the watcher
    news,         \* slot -> the arguments of the Checker::new calls made so far
    pc,           \* slot -> position of the run call on that watcher
    self,         \* slot -> Option<MultiWatcher>, the receiver of the run call
    check_result, \* slot -> Option of the local check_result of the run call
    idx,          \* slot -> number of alerts the iterator has yielded
    item,         \* slot -> Option<ActiveAlert> travelling down the pipeline
    err,          \* slot -> Option of the error the reporter returned
    runs          \* slot -> the events of the last two run calls, oldest first

vars == <<configs, watchers, cmp, period_out, news, pc, self, check_result, idx,
          item, err, runs>>

\* One observable step of a run call.
Event(op, i, k, val, alert, res) ==
    [op |-> op, idx |-> i, kind |-> k, value |-> val, alert |-> alert, result |-> res]

\* Appends events to the record of the call in progress on slot w.
Record(w, evs) ==
    [runs EXCEPT ![w] = [@ EXCEPT ![Len(@)] = @ \o evs]]

InitRest ==
    /\ watchers = [w \in Slots |-> None]
    /\ cmp = None
    /\ period_out = [w \in Slots |-> None]
    /\ news = [w \in Slots |-> <<>>]
    /\ pc = [w \in Slots |-> "idle"]
    /\ self = [w \in Slots |-> None]
    /\ check_result = [w \in Slots |-> None]
    /\ idx = [w \in Slots |-> 0]
    /\ item = [w \in Slots |-> None]
    /\ err = [w \in Slots |-> None]
    /\ runs = [w \in Slots |-> <<>>]

\* The configurations the run cycles are explored on: the period, which run
\* never reads, is the least one.
RunConfigurations ==
    {c \in WatcherConfiguration : c.serialized.configuration.period = 1}

\* A configuration file that declares one watcher.
Init ==
    /\ \E c \in RunConfigurations :
          configs = [w \in Slots |-> IF w = "w1" THEN Some(c) ELSE None]
    /\ InitRest

frame == <<pc, self, check_result, idx, item, err, runs>>

\* The driver converts the configuration of slot w: WatcherConfiguration::into.
Convert(w) ==
    /\ IsSome(configs[w])
    /\ watchers[w] = None
    /\ watchers' = [watchers EXCEPT ![w] = Some(Into(Unwrap(configs[w])))]
    /\ news' = [news EXCEPT ![w] = @ \o IntoNewCalls(Unwrap(configs[w]))]
    /\ UNCHANGED <<configs, cmp, period_out, frame>>

\* The driver reads the period of the watcher of slot w.
ReadPeriod(w) ==
    /\ IsSome(watchers[w])
    /\ period_out' = [period_out EXCEPT ![w] = Some(WatcherEnumPeriod(Unwrap(watchers[w])))]
    /\ UNCHANGED <<configs, news, watchers, cmp, frame>>

\* The driver compares and hashes the configurations of two slots.
Compare(a, b) ==
    /\ IsSome(configs[a])
    /\ IsSome(configs[b])
    /\ cmp' = Some([a |-> a, b |-> b,
                    eq |-> ConfigEq(Unwrap(configs[a]), Unwrap(configs[b])),
                    hash_a |-> ConfigHash(Unwrap(configs[a])),
                    hash_b |-> ConfigHash(Unwrap(configs[b]))])
    /\ UNCHANGED <<configs, news, watchers, period_out, frame>>

\* The run call on `receiver` begins: a new record, a fresh frame. The record
\* of the call before is kept, older ones are dropped.
Enter(w, via, receiver) ==
    /\ pc[w] = "idle"
    /\ pc' = [pc EXCEPT ![w] = "check"]
    /\ self' = [self EXCEPT ![w] = Some(receiver)]
    /\ check_result' = [check_result EXCEPT ![w] = None]
    /\ idx' = [idx EXCEPT ![w] = 0]
    /\ item' = [item EXCEPT ![w] = None]
    /\ err' = [err EXCEPT ![w] = None]
    /\ runs' = [runs EXCEPT ![w] =
                  Append(IF Len(@) < 2 THEN @ ELSE Tail(@),
                         <<Event("run", 0, via, None, None, OkUnit)>>)]
    /\ UNCHANGED <<configs, news, watchers, cmp, period_out>>

\* WatcherEnum::run: the match arm calls run on the variant's MultiWatcher.
RunEnum(w) ==
    /\ IsSome(watchers[w])
    /\ Enter(w, "enum", DispatchRun(Unwrap(watchers[w])))

\* MultiWatcher::run called on the wrapped MultiWatcher itself.
RunDirect(w) ==
    /\ IsSome(watchers[w])
    /\ Enter(w, "direct", Unwrap(watchers[w]).watcher)

\* A check whose failure is dropped: run goes on to return Ok(()).
PropagateLost(outcome) ==
    IF outcome.ok THEN None ELSE Some(OkUnit)

\* The `?` of line 55: Some(result to return at once) on a failure, None on
\* success.
Propagate(outcome) ==
    IF outcome.ok THEN None ELSE Some(Err(Unwrap(outcome.error)))

\* let check_result = self.checker.check()?;
Check(w) ==
    /\ pc[w] = "check"
    /\ \E outcome \in CheckOutcomes :
         LET k == Unwrap(self[w]).checker.kind
             ev == Event("check", 0, k, outcome.value, None, outcome)
             early == Propagate(outcome)
         IN IF IsSome(early)
            THEN /\ check_result' = check_result
                 /\ pc' = [pc EXCEPT ![w] = "idle"]
                 /\ self' = [self EXCEPT ![w] = None]
                 /\ runs' = Record(w, <<ev, Event("return", 0, k, None, None,
                                                  Unwrap(early))>>)
            ELSE /\ check_result' = [check_result EXCEPT ![w] = outcome.value]
                 /\ pc' = [pc EXCEPT ![w] = "next"]
                 /\ self' = self
                 /\ runs' = Record(w, <<ev>>)
    /\ UNCHANGED <<configs, news, watchers, cmp, period_out, idx, item, err>>

\* An evaluation that drops an alert equal to one already reported in this run.
EvalAlertDedup(w) ==
    LET fired == is_triggered(Unwrap(self[w]).alerts[idx[w] + 1],
                              Unwrap(check_result[w]))
        r == runs[w][Len(runs[w])]
    IN IF \E n \in 1..Len(r) : r[n].op = "report" /\ r[n].alert = fired
       THEN None ELSE fired

\* An evaluation against the check result kept from the previous cycle, when
\* that cycle's check succeeded.
EvalAlertStale(w) ==
    LET k == Len(runs[w])
        v == IF k > 1 /\ runs[w][k - 1][2].result.ok
             THEN runs[w][k - 1][2].value ELSE check_result[w]
    IN is_triggered(Unwrap(self[w]).alerts[idx[w] + 1], Unwrap(v))

\* An evaluation that drops an alert already delivered in an earlier cycle.
EvalAlertOnce(w) ==
    LET fired == is_triggered(Unwrap(self[w]).alerts[idx[w] + 1],
                              Unwrap(check_result[w]))
    IN IF \E k \in 1..(Len(runs[w]) - 1) : \E n \in 1..Len(runs[w][k]) :
             /\ runs[w][k][n].op = "report"
             /\ runs[w][k][n].result.ok
             /\ runs[w][k][n].alert = fired
       THEN None ELSE fired

\* An evaluation that brings back the alert whose delivery failed at this place
\* in an earlier cycle when the alert does not trigger now.
EvalAlertRetry(w) ==
    LET fired == is_triggered(Unwrap(self[w]).alerts[idx[w] + 1],
                              Unwrap(check_result[w]))
        failed == UNION {{runs[w][k][n].alert :
                            n \in {m \in 1..Len(runs[w][k]) :
                                     /\ runs[w][k][m].op = "report"
                                     /\ runs[w][k][m].idx = idx[w] + 1
                                     /\ ~runs[w][k][m].result.ok}} :
                         k \in 1..(Len(runs[w]) - 1)}
    IN IF fired = None /\ failed # {} THEN CHOOSE a \in failed : TRUE ELSE fired

\* An evaluation against the check result of whichever run call stored one
\* last: the other watcher's, when that call is in progress.
EvalAlertShared(w) ==
    LET others == {o \in Slots \ {w} : IsSome(check_result[o])}
        v == IF others # {} THEN check_result[CHOOSE o \in others : TRUE]
             ELSE check_result[w]
    IN is_triggered(Unwrap(self[w]).alerts[idx[w] + 1], Unwrap(v))

\* The alert the iterator yields next, evaluated against the check result.
EvalAlert(w) ==
    is_triggered(Unwrap(self[w]).alerts[idx[w] + 1], Unwrap(check_result[w]))

\* A chain that collects before it reports: the first pull evaluates every
\* alert that is left, and only then does the first fired one travel on.
EvalCollect(w) ==
    /\ pc[w] = "next"
    /\ idx[w] < Len(Unwrap(self[w]).alerts)
    /\ LET alerts == Unwrap(self[w]).alerts
           rest == (idx[w] + 1)..Len(alerts)
           evs == [i \in 1..(Len(alerts) - idx[w]) |->
                     Event("eval", idx[w] + i, alerts[idx[w] + i].kind,
                           check_result[w],
                           is_triggered(alerts[idx[w] + i], Unwrap(check_result[w])),
                           OkUnit)]
           fired == IF \E i \in rest :
                         IsSome(is_triggered(alerts[i], Unwrap(check_result[w])))
                    THEN LET f == CHOOSE i \in rest :
                                    /\ IsSome(is_triggered(alerts[i], Unwrap(check_result[w])))
                                    /\ \A j \in rest :
                                          IsSome(is_triggered(alerts[j], Unwrap(check_result[w])))
                                             => i <= j
                         IN is_triggered(alerts[f], Unwrap(check_result[w]))
                    ELSE None
       IN /\ idx' = [idx EXCEPT ![w] = Len(alerts)]
          /\ item' = [item EXCEPT ![w] = fired]
          /\ pc' = [pc EXCEPT ![w] = IF IsSome(fired) THEN "info" ELSE "next"]
          /\ runs' = Record(w, evs)
    /\ UNCHANGED <<configs, news, watchers, cmp, period_out, self, check_result, err>>

\* self.alerts.iter().filter_map(|a| a.is_triggered(&check_result)): the
\* consumer pulls the next alert.
Eval(w) ==
    /\ pc[w] = "next"
    /\ idx[w] < Len(Unwrap(self[w]).alerts)
    /\ LET a == Unwrap(self[w]).alerts[idx[w] + 1]
           fired == EvalAlert(w)
       IN /\ idx' = [idx EXCEPT ![w] = @ + 1]
          /\ item' = [item EXCEPT ![w] = fired]
          /\ pc' = [pc EXCEPT ![w] = IF IsSome(fired) THEN "info" ELSE "next"]
          /\ runs' = Record(w, <<Event("eval", idx[w] + 1, a.kind,
                                       check_result[w], fired, OkUnit)>>)
    /\ UNCHANGED <<configs, news, watchers, cmp, period_out, self, check_result, err>>

\* .inspect(|a| info!(firing_alert = ?a))
Info(w) ==
    /\ pc[w] = "info"
    /\ pc' = [pc EXCEPT ![w] = "report"]
    /\ runs' = Record(w, <<Event("info", idx[w], "log", None, item[w], OkUnit)>>)
    /\ UNCHANGED <<configs, news, watchers, cmp, period_out, self, check_result, idx,
                   item, err>>

\* A reporter failure that is dropped without a warning.
AfterReportSilent(res) == "next"

\* Where the pipeline goes after report() returned res.
AfterReport(res) == IF res.ok THEN "next" ELSE "warn"

\* .filter_map(|alert| match alert_reporter.report(&alert) { .. })
Report(w) ==
    /\ pc[w] = "report"
    /\ \E res \in {OkUnit} \cup {Err(e) : e \in ReportErrors} :
         /\ pc' = [pc EXCEPT ![w] = AfterReport(res)]
         /\ err' = [err EXCEPT ![w] = res.error]
         /\ runs' = Record(w, <<Event("report", idx[w], "reporter", None,
                                      item[w], res)>>)
    /\ item' = [item EXCEPT ![w] = None]
    /\ UNCHANGED <<configs, news, watchers, cmp, period_out, self, check_result, idx>>

\* A delivery failure handled with `?`: the call returns the reporter's error.
WarnAbort(w) ==
    /\ pc[w] = "warn"
    /\ pc' = [pc EXCEPT ![w] = "idle"]
    /\ self' = [self EXCEPT ![w] = None]
    /\ check_result' = [check_result EXCEPT ![w] = None]
    /\ idx' = [idx EXCEPT ![w] = 0]
    /\ err' = [err EXCEPT ![w] = None]
    /\ runs' = Record(w, <<Event("return", 0, Unwrap(self[w]).checker.kind,
                                 None, None, Err(Unwrap(err[w])))>>)
    /\ UNCHANGED <<configs, news, watchers, cmp, period_out, item>>

\* .for_each(|e| { warn!(alert_reporter = ?e); })
Warn(w) ==
    /\ pc[w] = "warn"
    /\ pc' = [pc EXCEPT ![w] = "next"]
    /\ err' = [err EXCEPT ![w] = None]
    /\ runs' = Record(w, <<Event("warn", idx[w], "log", None, None,
                                 Err(Unwrap(err[w])))>>)
    /\ UNCHANGED <<configs, news, watchers, cmp, period_out, self, check_result, idx,
                   item>>

\* A chain that stops at the first alert it has reported, as `find_map` or
\* `any` would.
ReturnEarly(w) ==
    /\ pc[w] = "next"
    /\ \/ idx[w] = Len(Unwrap(self[w]).alerts)
       \/ \E n \in 1..Len(runs[w][Len(runs[w])]) :
             runs[w][Len(runs[w])][n].op = "report"
    /\ pc' = [pc EXCEPT ![w] = "idle"]
    /\ self' = [self EXCEPT ![w] = None]
    /\ check_result' = [check_result EXCEPT ![w] = None]
    /\ idx' = [idx EXCEPT ![w] = 0]
    /\ runs' = Record(w, <<Event("return", 0, Unwrap(self[w]).checker.kind,
                                 None, None, OkUnit)>>)
    /\ UNCHANGED <<configs, news, watchers, cmp, period_out, item, err>>

\* What run returns once the iterator is exhausted.
RunResult(w) == OkUnit

\* Ok(()): the iterator is exhausted, the call returns and its frame is gone.
Return(w) ==
    /\ pc[w] = "next"
    /\ idx[w] = Len(Unwrap(self[w]).alerts)
    /\ pc' = [pc EXCEPT ![w] = "idle"]
    /\ self' = [self EXCEPT ![w] = None]
    /\ check_result' = [check_result EXCEPT ![w] = None]
    /\ idx' = [idx EXCEPT ![w] = 0]
    /\ runs' = Record(w, <<Event("return", 0, Unwrap(self[w]).checker.kind,
                                 None, None, RunResult(w))>>)
    /\ UNCHANGED <<configs, news, watchers, cmp, period_out, item, err>>

\* One step of the run call on slot w.
Step(w) ==
    \/ Check(w)
    \/ Eval(w)
    \/ Info(w)
    \/ Report(w)
    \/ Warn(w)
    \/ Return(w)

\* One watcher, driven cycle after cycle.
Next ==
    \E w \in Slots :
        \/ Convert(w)
        \/ RunEnum(w)
        \/ RunDirect(w)
        \/ Step(w)

Spec == Init /\ [][Next]_vars

\* ------------------------------------------------ configurations only
\* A configuration file that declares two watchers.
InitConfig ==
    /\ configs \in [Slots -> {Some(c) : c \in
                       {d \in WatcherConfiguration :
                          Len(d.serialized.alerts) < MaxAlerts}}]
    /\ InitRest

\* The driver loads, compares, converts and reads periods; nothing runs.
NextConfig ==
    \/ \E a, b \in Slots : Compare(a, b)
    \/ \E w \in Slots : Convert(w)
    \/ \E w \in Slots : ReadPeriod(w)

SpecConfig == InitConfig /\ [][NextConfig]_vars

\* ------------------------------------------------ two watchers at once
\* A configuration file that declares two watchers, their periods the least.
InitConc ==
    /\ configs \in [Slots -> {Some(c) : c \in
                       {d \in RunConfigurations :
                          Len(d.serialized.alerts) < MaxAlerts}}]
    /\ Unwrap(configs["w1"]).kind = "DiskSpace"
    /\ Unwrap(configs["w2"]).kind = "Memory"
    /\ InitRest

\* The driver invokes run once on the watcher of slot w.
RunOnce(w) ==
    /\ Len(runs[w]) = 0
    /\ RunEnum(w)

\* The steps of the two run calls interleave in any order.
NextConc ==
    \E w \in Slots :
        \/ Convert(w)
        \/ RunOnce(w)
        \/ Step(w)

SpecConc == InitConc /\ [][NextConc]_vars

\* ------------------------------------------------ one watcher, one run
\* A configuration file that declares one watcher, of any period.
InitOnce ==
    /\ \E c \in WatcherConfiguration :
          configs = [w \in Slots |-> IF w = "w1" THEN Some(c) ELSE None]
    /\ InitRest

\* The driver converts the configuration, reads the period and runs once.
NextOnce ==
    \E w \in Slots :
        \/ Convert(w)
        \/ ReadPeriod(w)
        \/ RunOnce(w)
        \/ Step(w)

SpecOnce == InitOnce /\ [][NextOnce]_vars

\* ------------------------------------------------------- reading the records
\* The events of record r whose operation is op, in order.
Ops(r, op) == SelectSeq(r, LAMBDA e : e.op = op)

\* The record ends with the return of the call.
Complete(r) == r[Len(r)].op = "return"

\* The value the call returned.
Ret(r) == r[Len(r)].result

\* The call has made its check().
Checked(r) == Len(r) >= 2 /\ r[2].op = "check"

\* The alerts handed to the reporter by the events evs, in order.
RECURSIVE Alerts(_)
Alerts(evs) ==
    IF evs = <<>> THEN <<>> ELSE Head(evs).alert \o Alerts(Tail(evs))

\* The alerts of the list that fire on level v, in declaration order.
RECURSIVE Triggered(_, _)
Triggered(alerts, v) ==
    IF alerts = <<>> THEN <<>>
    ELSE is_triggered(Head(alerts), v) \o Triggered(Tail(alerts), v)

\* The alert list declared in the configuration of slot w.
Declared(w) == Unwrap(configs[w]).serialized.alerts

\* The positions of record r where a report of the alert at place i was made.
ReportsAt(r, i) == {n \in 1..Len(r) : r[n].op = "report" /\ r[n].idx = i}

\* The records of slot w, by cycle number.
Cycles(w) == 1..Len(runs[w])

\* ------------------------------------------------------------------ claims

\* C1: when check() fails, run returns that very failure at once: no alert is
\* evaluated and the reporter gets no call in that cycle.
C1_CheckFailureAborts ==
    \A w \in Slots : \A k \in Cycles(w) :
        LET r == runs[w][k] IN
        (Checked(r) /\ ~r[2].result.ok) =>
            /\ Len(r) = 3
            /\ Complete(r)
            /\ Ret(r) = Err(Unwrap(r[2].result.error))
            /\ Ops(r, "eval") = <<>>
            /\ Ops(r, "report") = <<>>
            /\ (k = Len(runs[w]) => pc[w] = "idle")

\* A failed check on a watcher that has alerts to evaluate.
C1_Witness ==
    \E w \in Slots : \E k \in Cycles(w) :
        /\ Checked(runs[w][k])
        /\ ~runs[w][k][2].result.ok
        /\ Complete(runs[w][k])
        /\ Len(Declared(w)) > 0

\* C2: when check() succeeds, a failed delivery never aborts the cycle: every
\* triggered alert declared after it still gets its delivery attempt, and run
\* returns success however many deliveries failed.
C2_DeliveryFailureNeverAborts ==
    \A w \in Slots : \A k \in Cycles(w) :
        LET r == runs[w][k] IN
        (Checked(r) /\ r[2].result.ok /\ Complete(r)) =>
            /\ Ret(r) = OkUnit
            /\ \A n \in 1..Len(r) :
                 (r[n].op = "report" /\ ~r[n].result.ok) =>
                    \A j \in (r[n].idx + 1)..Len(Declared(w)) :
                        IsSome(is_triggered(Declared(w)[j], Unwrap(r[2].value)))
                            => ReportsAt(r, j) # {}

\* A finished cycle in which several alerts fired and every delivery failed.
C2_Witness ==
    \E w \in Slots : \E k \in Cycles(w) :
        LET r == runs[w][k] IN
        /\ Complete(r)
        /\ Len(Ops(r, "report")) >= 2
        /\ \A n \in 1..Len(r) : r[n].op = "report" => ~r[n].result.ok
        /\ Ret(r) = OkUnit

\* C3: for a successful check, the reporter calls of one run are exactly the
\* ActiveAlerts of the triggering alerts, in declaration order, each once:
\* none skipped, none retried, equal messages both reported.
C3_ReportsAreTriggeredInOrder ==
    \A w \in Slots : \A k \in Cycles(w) :
        LET r == runs[w][k] IN
        (Checked(r) /\ r[2].result.ok) =>
            LET rep == Alerts(Ops(r, "report"))
                exp == Triggered(Declared(w), Unwrap(r[2].value))
            IN /\ Len(rep) <= Len(exp)
               /\ rep = SubSeq(exp, 1, Len(rep))
               /\ Complete(r) => rep = exp

\* A finished cycle where two alerts gave the same message, both were
\* reported, and the first delivery failed.
C3_Witness ==
    \E w \in Slots : \E k \in Cycles(w) :
        LET r == runs[w][k]
            rep == Ops(r, "report")
        IN /\ Complete(r)
           /\ Len(rep) = 2
           /\ rep[1].alert = rep[2].alert
           /\ ~rep[1].result.ok

\* C4: for a check result on which no alert triggers, the empty alert list
\* included, run makes no reporter call and returns success.
C4_NoTriggerNoReport ==
    \A w \in Slots : \A k \in Cycles(w) :
        LET r == runs[w][k] IN
        (/\ Checked(r)
         /\ r[2].result.ok
         /\ Triggered(Declared(w), Unwrap(r[2].value)) = <<>>) =>
            /\ Ops(r, "report") = <<>>
            /\ Complete(r) => Ret(r) = OkUnit

\* A finished second cycle on which none of several alerts triggers, after a
\* first cycle that reported.
C4_Witness ==
    \E w \in Slots :
        /\ Len(runs[w]) = 2
        /\ Ops(runs[w][1], "report") # <<>>
        /\ Complete(runs[w][2])
        /\ runs[w][2][2].result.ok
        /\ Len(Declared(w)) > 1
        /\ Triggered(Declared(w), Unwrap(runs[w][2][2].value)) = <<>>

\* C5: two runs on one watcher whose checks return the same result report the
\* same sequence of alerts.
C5_SameResultSameReports ==
    \A w \in Slots : \A j, k \in Cycles(w) :
        LET rj == runs[w][j]
            rk == runs[w][k]
        IN (/\ j < k
            /\ Complete(rj)
            /\ Complete(rk)
            /\ rj[2].result.ok
            /\ rj[2].result = rk[2].result) =>
               Alerts(Ops(rj, "report")) = Alerts(Ops(rk, "report"))

\* Two finished cycles with the same check result, each reporting an alert.
C5_Witness ==
    \E w \in Slots :
        /\ Len(runs[w]) = 2
        /\ Complete(runs[w][1])
        /\ Complete(runs[w][2])
        /\ runs[w][1][2].result.ok
        /\ runs[w][1][2].result = runs[w][2][2].result
        /\ Ops(runs[w][1], "report") # <<>>
        /\ Ops(runs[w][2], "report") # <<>>

\* C6: a cycle that follows earlier cycles reports the alert at each place
\* once if it triggers on this cycle's check result and not at all if it does
\* not, whatever was delivered or failed before.
C6_CyclesIndependent ==
    \A w \in Slots : \A k \in Cycles(w) :
        LET r == runs[w][k] IN
        (k > 1 /\ Complete(r) /\ r[2].result.ok) =>
            \A i \in 1..Len(Declared(w)) :
                LET fired == is_triggered(Declared(w)[i], Unwrap(r[2].value)) IN
                /\ Cardinality(ReportsAt(r, i)) = Len(fired)
                /\ \A n \in ReportsAt(r, i) : r[n].alert = fired

\* A delivery failed in the first cycle, and the second cycle finished on a
\* check result on which that alert does not trigger.
C6_Witness ==
    \E w \in Slots : \E i \in 1..MaxAlerts :
        /\ Len(runs[w]) = 2
        /\ \E n \in ReportsAt(runs[w][1], i) : ~runs[w][1][n].result.ok
        /\ Complete(runs[w][2])
        /\ runs[w][2][2].result.ok
        /\ is_triggered(Declared(w)[i], Unwrap(runs[w][2][2].value)) = None

\* C7: WatcherConfiguration equality and hashing look at the variant only:
\* same kind means equal and equal hashes, whatever the contents; different
\* kinds are never equal.
C7_EqualityByKind ==
    IsSome(cmp) =>
        LET c == Unwrap(cmp)
            same == Unwrap(configs[c.a]).kind = Unwrap(configs[c.b]).kind
        IN /\ c.eq <=> same
           /\ same => c.hash_a = c.hash_b

\* Two configurations of one kind with different contents were compared.
C7_Witness ==
    /\ IsSome(cmp)
    /\ Unwrap(configs[Unwrap(cmp).a]).kind = Unwrap(configs[Unwrap(cmp).b]).kind
    /\ Unwrap(configs[Unwrap(cmp).a]).serialized.configuration
         # Unwrap(configs[Unwrap(cmp).b]).serialized.configuration
    /\ Unwrap(configs[Unwrap(cmp).a]).serialized.alerts
         # Unwrap(configs[Unwrap(cmp).b]).serialized.alerts
    /\ Unwrap(cmp).eq

\* C8: every configuration converts, to the variant of its own kind, and the
\* period read back from the WatcherEnum is the period of the Checker built
\* from the configuration.
C8_PeriodRoundTrip ==
    \A w \in Slots :
        IsSome(configs[w]) =>
            LET c == Unwrap(configs[w]) IN
            /\ Into(c).kind = c.kind
            /\ IsSome(watchers[w]) => Unwrap(watchers[w]).kind = c.kind
            /\ IsSome(period_out[w]) =>
                 Unwrap(period_out[w])
                   = CheckerPeriod(CheckerNew(c.kind, c.serialized.configuration))

\* Both variants were converted and their periods, which differ, read back.
C8_Witness ==
    /\ \A w \in Slots : IsSome(period_out[w])
    /\ Unwrap(watchers["w1"]).kind = "DiskSpace"
    /\ Unwrap(watchers["w2"]).kind = "Memory"
    /\ period_out["w1"] # period_out["w2"]

\* What a run of a watcher with the declared alerts reports when it runs
\* alone and its check returns outcome.
Alone(alerts, outcome) ==
    IF outcome.ok THEN Triggered(alerts, Unwrap(outcome.value)) ELSE <<>>

\* C9: when two watchers run with their steps interleaved, each returns what
\* it returns alone and reports its own alerts as it does alone.
C9_ConcurrentRunsIndependent ==
    \A w \in Slots : \A k \in Cycles(w) :
        LET r == runs[w][k] IN
        Checked(r) =>
            LET rep == Alerts(Ops(r, "report"))
                exp == Alone(Declared(w), r[2].result)
            IN /\ Len(rep) <= Len(exp)
               /\ rep = SubSeq(exp, 1, Len(rep))
               /\ Complete(r) =>
                    /\ rep = exp
                    /\ Ret(r) = IF r[2].result.ok THEN OkUnit ELSE r[2].result

\* Both run calls are in progress, on different check results, and each has
\* already made a reporter call.
C9_Witness ==
    /\ \A w \in Slots :
          /\ pc[w] # "idle"
          /\ Len(runs[w]) = 1
          /\ Ops(runs[w][1], "report") # <<>>
    /\ check_result["w1"] # check_result["w2"]

\* C10: a run through WatcherEnum returns and reports what a run of the
\* wrapped MultiWatcher returns and reports, and only the checker and alerts
\* of the variant's kind are invoked.
C10_EnumRunIsWatcherRun ==
    \A w \in Slots : \A j, k \in Cycles(w) :
        LET rj == runs[w][j]
            rk == runs[w][k]
        IN /\ (/\ rj[1].kind = "enum"
               /\ rk[1].kind = "direct"
               /\ Complete(rj)
               /\ Complete(rk)
               /\ rj[2].result = rk[2].result) =>
                  /\ Ret(rj) = Ret(rk)
                  /\ Alerts(Ops(rj, "report")) = Alerts(Ops(rk, "report"))
                  /\ Len(Ops(rj, "eval")) = Len(Ops(rk, "eval"))
           /\ rj[1].kind = "enum" =>
                \A n \in 1..Len(rj) :
                    rj[n].op \in {"check", "eval"} =>
                        rj[n].kind = Unwrap(watchers[w]).kind

\* A Memory watcher ran once through the enum and once directly on the same
\* check result, and reported.
C10_Witness ==
    \E w \in Slots :
        /\ Len(runs[w]) = 2
        /\ Unwrap(watchers[w]).kind = "Memory"
        /\ runs[w][1][1].kind = "enum"
        /\ runs[w][2][1].kind = "direct"
        /\ Complete(runs[w][1])
        /\ Complete(runs[w][2])
        /\ runs[w][1][2].result = runs[w][2][2].result
        /\ Ops(runs[w][2], "report") # <<>>

\* The position in record r of the first event of operation op for the alert
\* at place i; 0 when there is none.
PosOf(r, op, i) ==
    LET at == {n \in 1..Len(r) : r[n].op = op /\ r[n].idx = i}
    IN IF at = {} THEN 0 ELSE CHOOSE n \in at : \A m \in at : n <= m

\* C11: one run makes one check(), and after a successful check every alert
\* is evaluated once, in order, each against that one check result, whatever
\* earlier alerts did.
C11_OneCheckEveryAlertOnce ==
    \A w \in Slots : \A k \in Cycles(w) :
        LET r == runs[w][k]
            ev == Ops(r, "eval")
        IN /\ Len(Ops(r, "check")) <= 1
           /\ Complete(r) => Len(Ops(r, "check")) = 1
           /\ ev # <<>> => (Checked(r) /\ r[2].result.ok)
           /\ Len(ev) <= Len(Declared(w))
           /\ \A m \in 1..Len(ev) :
                /\ ev[m].idx = m
                /\ ev[m].value = r[2].value
           /\ (Complete(r) /\ r[2].result.ok) => Len(ev) = Len(Declared(w))

\* A finished run in which the first alert fired and its delivery failed, and
\* the second, which did not fire, was evaluated all the same.
C11_Witness ==
    \E w \in Slots : \E k \in Cycles(w) :
        LET r == runs[w][k]
            ev == Ops(r, "eval")
        IN /\ Complete(r)
           /\ Len(ev) = 2
           /\ IsSome(ev[1].alert)
           /\ ev[2].alert = None
           /\ \E n \in 1..Len(r) : r[n].op = "report" /\ ~r[n].result.ok

\* C12: an alert that fires is logged at info level right before its delivery
\* attempt; a warning is logged right after a delivery attempt exactly when
\* that attempt failed; an alert that does not fire logs nothing.
C12_LogsFollowThePipeline ==
    \A w \in Slots : \A k \in Cycles(w) :
        LET r == runs[w][k] IN
        \A n \in 1..Len(r) :
            /\ r[n].op = "info" =>
                 /\ r[n - 1].op = "eval"
                 /\ IsSome(r[n - 1].alert)
                 /\ r[n].alert = r[n - 1].alert
                 /\ r[n].idx = r[n - 1].idx
            /\ r[n].op = "report" =>
                 /\ r[n - 1].op = "info"
                 /\ r[n].alert = r[n - 1].alert
                 /\ r[n].idx = r[n - 1].idx
            /\ r[n].op = "warn" =>
                 /\ r[n - 1].op = "report"
                 /\ ~r[n - 1].result.ok
                 /\ r[n].result = r[n - 1].result
                 /\ r[n].idx = r[n - 1].idx
            /\ n < Len(r) =>
                 /\ (r[n].op = "eval" /\ IsSome(r[n].alert)) => r[n + 1].op = "info"
                 /\ (r[n].op = "eval" /\ r[n].alert = None) =>
                        r[n + 1].op \in {"eval", "return"}
                 /\ r[n].op = "info" => r[n + 1].op = "report"
                 /\ (r[n].op = "report" /\ ~r[n].result.ok) => r[n + 1].op = "warn"
                 /\ (r[n].op = "report" /\ r[n].result.ok) =>
                        r[n + 1].op \in {"eval", "return"}

\* A finished run with a delivery that failed and one that succeeded, after a
\* run in which an alert did not fire.
C12_Witness ==
    \E w \in Slots : \E k \in Cycles(w) :
        LET r == runs[w][k]
            prev == IF k > 1 THEN runs[w][k - 1] ELSE <<>>
        IN /\ Complete(r)
           /\ Len(Ops(r, "warn")) = 1
           /\ Len(Ops(r, "info")) = 2
           /\ k > 1
           /\ \E n \in 1..Len(prev) : prev[n].op = "eval" /\ prev[n].alert = None

\* C14: evaluation and delivery go alert by alert: when the alert at place j
\* is evaluated, every fired alert before it has had its delivery attempt and,
\* if that failed, its warning; when an alert is delivered no later alert has
\* been evaluated.
C14_EvaluationIsLazy ==
    \A w \in Slots : \A k \in Cycles(w) :
        LET r == runs[w][k] IN
        \A n \in 1..Len(r) :
            /\ r[n].op = "eval" =>
                 \A m \in 1..(n - 1) :
                     /\ (r[m].op = "eval" /\ IsSome(r[m].alert)) =>
                          /\ PosOf(r, "report", r[m].idx) \in (m + 1)..(n - 1)
                          /\ ~r[PosOf(r, "report", r[m].idx)].result.ok =>
                               PosOf(r, "warn", r[m].idx) \in (m + 1)..(n - 1)
            /\ r[n].op = "report" =>
                 \A m \in 1..(n - 1) : r[m].op = "eval" => r[m].idx <= r[n].idx

\* The first alert's delivery failed and was warned about, and only then was
\* the second alert evaluated, fired and delivered.
C14_Witness ==
    \E w \in Slots : \E k \in Cycles(w) :
        LET r == runs[w][k] IN
        /\ Complete(r)
        /\ PosOf(r, "warn", 1) > 0
        /\ PosOf(r, "eval", 2) > PosOf(r, "warn", 1)
        /\ PosOf(r, "report", 2) > PosOf(r, "eval", 2)

\* C13: the MultiWatcher built from a configuration holds the configuration's
\* alerts, same count and order; the conversion calls Checker::new once, with
\* the configuration's checker configuration; and run evaluates the alerts in
\* the configured order.
C13_ConversionKeepsAlerts ==
    \A w \in Slots :
        IsSome(configs[w]) =>
            LET c == Unwrap(configs[w]) IN
            /\ watchers[w] = None => news[w] = <<>>
            /\ IsSome(watchers[w]) =>
                 /\ Unwrap(watchers[w]).watcher.alerts = c.serialized.alerts
                 /\ news[w] = <<[kind |-> c.kind,
                                 configuration |-> c.serialized.configuration]>>
                 /\ Unwrap(watchers[w]).watcher.checker.configuration
                      = c.serialized.configuration
            /\ \A k \in Cycles(w) :
                 LET ev == Ops(runs[w][k], "eval") IN
                 \A m \in 1..Len(ev) :
                     /\ m <= Len(c.serialized.alerts)
                     /\ ev[m].kind = c.kind
                     /\ ev[m].alert = is_triggered(c.serialized.alerts[m],
                                                   Unwrap(ev[m].value))

\* A configuration with a period above the least and two alerts of different
\* thresholds was converted and run: the first alert did not fire, the second
\* did.
C13_Witness ==
    \E w \in Slots :
        /\ IsSome(watchers[w])
        /\ Unwrap(configs[w]).serialized.configuration.period > 1
        /\ Len(runs[w]) = 1
        /\ Complete(runs[w][1])
        /\ Len(Ops(runs[w][1], "eval")) = 2
        /\ Ops(runs[w][1], "eval")[1].alert = None
        /\ IsSome(Ops(runs[w][1], "eval")[2].alert)

====
